---- MODULE Spec2Model ----
(***************************************************************************)
(* State-machine model of src/src/native/native.cpp: the conversion and    *)
(* preview entry points of the geoconverter native layer, the diagnostic   *)
(* channel (g_lastError / g_lastInfo and the engine's own last-error       *)
(* text), the /vsimem scratch store and the translate calls handed to the  *)
(* vector I/O engine.  The engine itself is an environment: every answer   *)
(* it can give (a failed write, a null dataset, a message of any class) is *)
(* a nondeterministic choice.                                              *)
(***************************************************************************)
EXTENDS Integers, Sequences, FiniteSets, TLC

VARIABLES
    pc,            \* position of the calling thread inside the public operation
    op,            \* the public operation running or last returned
    req,           \* the arguments of that operation
    inputPath,     \* std::string inputPath: the path handed to GDALOpenEx
    driver,        \* std::string driver of convertVector
    g_lastError,   \* thread_local g_lastError
    g_lastInfo,    \* thread_local g_lastInfo
    cplLastMsg,    \* the engine's own last-error text (CPLGetLastErrorMsg)
    handlers,      \* depth of the engine's error-handler stack owned by this thread
    vsimem,        \* the scratch store: a set of [name, data, input] entries
    srcState,      \* the source dataset handle: "none", "open", "closed", "closed2"
    li,            \* shapefile path: index of the layer being split
    pi,            \* shapefile path: index of the geometry family being split
    calls,         \* the translate calls made by this operation, in order
    exc,           \* what() of the exception in flight, "" when none
    result,        \* convert: the returned bytes, as the set of their contents
    doc,           \* preview / version info: the returned document, key |-> value
    delivered,     \* history: the messages handed to ErrHandler in this operation
    created,       \* history: the scratch names this operation has written
    src,           \* the dataset GDALOpenEx answered: what the opened bytes hold
    other          \* the thread-local state of the thread that is not running

chan == <<g_lastError, g_lastInfo, cplLastMsg>>

vars == <<pc, op, req, inputPath, driver, chan, handlers, vsimem, srcState, li, pi,
          calls, exc, result, doc, delivered, created, src, other>>

(***************************************************************************)
(* Bounds of the model.                                                    *)
(***************************************************************************)
\* messages the engine may hand to the handler during one operation
MaxEmit == 2
\* layers of an input dataset
MaxLayers == 2

(***************************************************************************)
(* Strings.                                                                *)
(***************************************************************************)
UpperChars == "ABCDEFGHIJKLMNOPQRSTUVWXYZ"
LowerChars == "abcdefghijklmnopqrstuvwxyz"

Range(s) == {s[i] : i \in DOMAIN s}

\* std::tolower on one character
UpperToLower ==
    [c \in {SubSeq(UpperChars, i, i) : i \in 1..26} |->
        LET i == CHOOSE i \in 1..26 : SubSeq(UpperChars, i, i) = c
        IN  SubSeq(LowerChars, i, i)]

LowerChar(c) == IF c \in DOMAIN UpperToLower THEN UpperToLower[c] ELSE c

RECURSIVE toLower(_)
toLower(s) ==
    IF s = "" THEN ""
    ELSE LowerChar(SubSeq(s, 1, 1)) \o toLower(SubSeq(s, 2, Len(s)))

\* std::string::find(sub) != npos
Contains(s, sub) ==
    \E i \in 1..(Len(s) + 1) :
        /\ i + Len(sub) - 1 <= Len(s)
        /\ SubSeq(s, i, i + Len(sub) - 1) = sub

\* the last n characters of s
Suffix(s, n) == SubSeq(s, Len(s) - n + 1, Len(s))

\* std::to_string(int) for non-negative values
Digit(n) == SubSeq("0123456789", n + 1, n + 1)

RECURSIVE IntToString(_)
IntToString(n) ==
    IF n < 10 THEN Digit(n) ELSE IntToString(n \div 10) \o Digit(n % 10)

\* std::to_string(double) for the whole-number values of the model ("%f")
DoubleToString(n) ==
    IF n < 0 THEN "-" \o IntToString(0 - n) \o ".000000"
    ELSE IntToString(n) \o ".000000"

(***************************************************************************)
(* Diagnostic channel (native.cpp 65-96, 170-177, 986-988).                *)
(***************************************************************************)
\* the state of the channel as one value, so that its operations are functions
Chan == [err |-> g_lastError, info |-> g_lastInfo, cpl |-> cplLastMsg]

\* a reset that forgets the error slot
resetLastErrorKeepsError(ch) == [err |-> ch.err, info |-> "", cpl |-> ""]

\* resetLastError(): clears both slots and calls CPLErrorReset()
resetLastError(ch) == [err |-> "", info |-> "", cpl |-> ""]

\* a recorder that keeps the first failure text and drops the later ones
recordErrorMessageKeepFirst(ch, msg) ==
    IF msg # "" /\ ch.err = "" THEN [ch EXCEPT !.err = msg] ELSE ch

\* recordErrorMessage(msg): msg && *msg
recordErrorMessage(ch, msg) ==
    IF msg # "" THEN [ch EXCEPT !.err = msg] ELSE ch

\* recordInfoMessage(msg)
recordInfoMessage(ch, msg) ==
    IF msg # "" THEN [ch EXCEPT !.info = msg] ELSE ch

\* a completion that prefers the stored warning to the engine's last-error text
ensureLastErrorMessageInfoFirst(ch) ==
    IF ch.err # "" THEN ch
    ELSE IF ch.info # "" THEN [ch EXCEPT !.err = ch.info]
    ELSE IF ch.cpl # "" THEN [ch EXCEPT !.err = ch.cpl]
    ELSE ch

\* ensureLastErrorMessage()
ensureLastErrorMessage(ch) ==
    IF ch.err # "" THEN ch
    ELSE IF ch.cpl # "" THEN [ch EXCEPT !.err = ch.cpl]
    ELSE IF ch.info # "" THEN [ch EXCEPT !.err = ch.info]
    ELSE ch

\* ErrHandler(classType, errNo, msg)
ErrHandler(ch, classType, msg) ==
    IF classType \in {"CE_Failure", "CE_Fatal"} THEN recordErrorMessage(ch, msg)
    ELSE IF classType \in {"CE_Warning", "CE_Debug"} THEN recordInfoMessage(ch, msg)
    ELSE ch

\* Native::getLastError()
getLastError == g_lastError

(***************************************************************************)
(* Format registry (native.cpp 98-168).                                    *)
(***************************************************************************)
\* the chain of "if (f == key) return value;" lines from line i on, then the default
RECURSIVE LookupFrom(_, _, _, _)
LookupFrom(table, k, default, i) ==
    IF i > Len(table) THEN default
    ELSE IF table[i][1] = k THEN table[i][2]
    ELSE LookupFrom(table, k, default, i + 1)

Lookup(table, k, default) == LookupFrom(table, k, default, 1)

DriverTable ==
    << <<"geojson", "GeoJSON">>, <<"topojson", "TopoJSON">>,
       <<"shapefile", "ESRI Shapefile">>, <<"geopackage", "GPKG">>,
       <<"kml", "KML">>, <<"gpx", "GPX">>, <<"gml", "GML">>,
       <<"flatgeobuf", "FlatGeobuf">>, <<"csv", "CSV">>,
       <<"pmtiles", "PMTiles">>, <<"mbtiles", "MBTiles">>, <<"dxf", "DXF">>,
       <<"dgn", "DGN">>, <<"geojsonseq", "GeoJSONSeq">>,
       <<"georss", "GeoRSS">>, <<"geoconcept", "Geoconcept">>,
       <<"jml", "JML">>, <<"jsonfg", "JSONFG">>, <<"mapml", "MapML">>,
       <<"ods", "ODS">>, <<"ogr_gmt", "OGR_GMT">>, <<"pcidsk", "PCIDSK">>,
       <<"pds4", "PDS4">>, <<"s57", "S57">>, <<"sqlite", "SQLite">>,
       <<"selafin", "Selafin">>, <<"vdv", "VDV">>, <<"vicar", "VICAR">>,
       <<"wasp", "WAsP">>, <<"xlsx", "XLSX">>, <<"pgdump", "PGDump">> >>

ExtensionTable ==
    << <<"geojson", ".geojson">>, <<"topojson", ".topojson">>,
       <<"shapefile", ".zip">>, <<"geopackage", ".gpkg">>,
       <<"kml", ".kml">>, <<"gpx", ".gpx">>, <<"gml", ".gml">>,
       <<"flatgeobuf", ".fgb">>, <<"csv", ".csv">>,
       <<"pmtiles", ".pmtiles">>, <<"mbtiles", ".mbtiles">>, <<"dxf", ".dxf">>,
       <<"dgn", ".dgn">>, <<"geojsonseq", ".geojsonseq">>,
       <<"georss", ".georss">>, <<"geoconcept", ".gxt">>,
       <<"jml", ".jml">>, <<"jsonfg", ".jsonfg">>, <<"mapml", ".mapml">>,
       <<"ods", ".ods">>, <<"ogr_gmt", ".gmt">>, <<"pcidsk", ".pix">>,
       <<"pds4", ".pds4.xml">>, <<"s57", ".000">>, <<"sqlite", ".sqlite">>,
       <<"selafin", ".slf">>, <<"vdv", ".vdv">>, <<"vicar", ".vic">>,
       <<"wasp", ".map">>, <<"xlsx", ".xlsx">>, <<"pgdump", ".sql">> >>

\* a lookup that compares the name as given, without lower-casing it
getDriverNameCaseSensitive(format) == Lookup(DriverTable, format, "GeoJSON")

getDriverNameFromFormat(format) == Lookup(DriverTable, toLower(format), "GeoJSON")

getExtensionFromFormat(format) == Lookup(ExtensionTable, toLower(format), ".geojson")

(***************************************************************************)
(* Translate directives (native.cpp 223-297).                              *)
(***************************************************************************)
\* GetLayerCount() > 0 ? GetLayer(0)->GetSpatialRef() : nullptr, as "is not null"
FirstLayerHasSrs(ds) == Len(ds) > 0 /\ ds[1].srs

\* pushCrsArgs without the look at the file's own CRS: a lone target always transforms
pushCrsArgsAlwaysTransform(args, ds, sourceCrs, targetCrs) ==
    LET haveSrc == sourceCrs # ""
        haveDst == targetCrs # ""
    IN  IF haveSrc /\ haveDst /\ sourceCrs # targetCrs
        THEN args \o <<"-s_srs", sourceCrs, "-t_srs", targetCrs>>
        ELSE IF haveSrc /\ ~haveDst
        THEN args \o <<"-a_srs", sourceCrs>>
        ELSE IF haveDst /\ ~haveSrc
        THEN args \o <<"-t_srs", targetCrs>>
        ELSE args

\* pushCrsArgs without the comparison of the two user strings: both given always transforms
pushCrsArgsNoEqualTest(args, ds, sourceCrs, targetCrs) ==
    LET haveSrc == sourceCrs # ""
        haveDst == targetCrs # ""
    IN  IF haveSrc /\ haveDst
        THEN args \o <<"-s_srs", sourceCrs, "-t_srs", targetCrs>>
        ELSE IF haveSrc /\ ~haveDst
        THEN args \o <<"-a_srs", sourceCrs>>
        ELSE IF haveDst /\ ~haveSrc
        THEN IF ~FirstLayerHasSrs(ds)
             THEN args \o <<"-a_srs", targetCrs>>
             ELSE args \o <<"-t_srs", targetCrs>>
        ELSE args

\* pushCrsArgs(args, src, sourceCrs, targetCrs)
pushCrsArgs(args, ds, sourceCrs, targetCrs) ==
    LET haveSrc == sourceCrs # ""
        haveDst == targetCrs # ""
    IN  IF haveSrc /\ haveDst /\ sourceCrs # targetCrs
        THEN args \o <<"-s_srs", sourceCrs, "-t_srs", targetCrs>>
        ELSE IF haveSrc /\ ~haveDst
        THEN args \o <<"-a_srs", sourceCrs>>
        ELSE IF haveDst /\ ~haveSrc
        THEN IF ~FirstLayerHasSrs(ds)
             THEN args \o <<"-a_srs", targetCrs>>
             ELSE args \o <<"-t_srs", targetCrs>>
        ELSE args

\* pushDriverLCO(args, driver, geojsonPrecision, csvGeometryMode)
pushDriverLCO(args, drv, geojsonPrecision, csvGeometryMode) ==
    IF drv = "ESRI Shapefile"
    THEN args \o <<"-lco", "ENCODING=UTF-8">>
    ELSE IF drv \in {"GeoJSON", "TopoJSON"}
    THEN args \o <<"-lco", "WRITE_BBOX=YES",
                   "-lco", "COORDINATE_PRECISION=" \o IntToString(geojsonPrecision)>>
    ELSE IF drv = "GPKG"
    THEN args \o <<"-lco", "SPATIAL_INDEX=YES">>
    ELSE IF drv = "CSV"
    THEN IF csvGeometryMode = "XY"
         THEN args \o <<"-lco", "GEOMETRY=AS_XY">>
         ELSE args \o <<"-lco", "GEOMETRY=AS_WKT">>
    ELSE args

WHERE_POINT == "OGR_GEOMETRY='POINT'"
WHERE_MULTIPOINT == "OGR_GEOMETRY='MULTIPOINT'"
WHERE_LINES == "OGR_GEOMETRY='LINESTRING' OR OGR_GEOMETRY='MULTILINESTRING'"
WHERE_POLYS == "OGR_GEOMETRY='POLYGON' OR OGR_GEOMETRY='MULTIPOLYGON'"

\* whereFromFilter(filter)
whereFromFilter(filter) ==
    LET f == toLower(filter)
    IN  IF f \in {"point", "points"} THEN WHERE_POINT
        ELSE IF f \in {"multipoint", "multi-point"} THEN WHERE_MULTIPOINT
        ELSE IF f \in {"line", "lines", "linestring"} THEN WHERE_LINES
        ELSE IF f \in {"polygon", "polygons"} THEN WHERE_POLYS
        ELSE ""

\* const Part parts[] of the shapefile branch
parts ==
    << [where |-> WHERE_POINT,      suffix |-> "_point",      promoteToMulti |-> FALSE],
       [where |-> WHERE_MULTIPOINT, suffix |-> "_multipoint", promoteToMulti |-> FALSE],
       [where |-> WHERE_LINES,      suffix |-> "_lines",      promoteToMulti |-> TRUE],
       [where |-> WHERE_POLYS,      suffix |-> "_polygons",   promoteToMulti |-> TRUE] >>

\* the directives common to both branches: the global option flags
GlobalArgs(args, r) ==
    LET a1 == IF r.skipFailures THEN Append(args, "-skipfailures") ELSE args
        a2 == IF r.makeValid THEN Append(a1, "-makevalid") ELSE a1
        a3 == IF r.preserveFid THEN Append(a2, "-preserve_fid") ELSE a2
    IN  IF r.simplifyTolerance > 0
        THEN a3 \o <<"-simplify", DoubleToString(r.simplifyTolerance)>>
        ELSE a3

\* the directive list of one geometry family's translate (shapefile branch)
FamilyBaseName(r, srcLayerName, p) ==
    (IF r.layerName = "" THEN srcLayerName ELSE r.layerName) \o p.suffix

\* family directives that promote every family, points included
FamilyArgsPromoteAll(r, ds, drv, srcLayerName, p) ==
    LET a0 == <<"-f", "ESRI Shapefile", "-where", p.where,
                "-nln", FamilyBaseName(r, srcLayerName, p),
                "-dim", IF r.keepZ THEN "XYZ" ELSE "XY">>
        a1 == IF r.explodeCollections THEN Append(a0, "-explodecollections") ELSE a0
        a2 == a1 \o <<"-nlt", "PROMOTE_TO_MULTI">>
        a3 == GlobalArgs(a2, r)
        a4 == pushDriverLCO(a3, drv, r.geojsonPrecision, r.csvGeometryMode)
    IN  pushCrsArgs(a4, ds, r.sourceCrs, r.targetCrs)

FamilyArgs(r, ds, drv, srcLayerName, p) ==
    LET a0 == <<"-f", "ESRI Shapefile", "-where", p.where,
                "-nln", FamilyBaseName(r, srcLayerName, p),
                "-dim", IF r.keepZ THEN "XYZ" ELSE "XY">>
        a1 == IF r.explodeCollections THEN Append(a0, "-explodecollections") ELSE a0
        a2 == IF p.promoteToMulti THEN a1 \o <<"-nlt", "PROMOTE_TO_MULTI">> ELSE a1
        a3 == GlobalArgs(a2, r)
        a4 == pushDriverLCO(a3, drv, r.geojsonPrecision, r.csvGeometryMode)
    IN  pushCrsArgs(a4, ds, r.sourceCrs, r.targetCrs)

\* the directive list of the single translate (non-shapefile branch)
SingleArgs(r, ds, drv) ==
    LET a0 == <<"-f", drv, "-dim", IF r.keepZ THEN "XYZ" ELSE "XY">>
        a1 == IF r.explodeCollections THEN Append(a0, "-explodecollections") ELSE a0
        a2 == GlobalArgs(a1, r)
        a3 == pushDriverLCO(a2, drv, r.geojsonPrecision, r.csvGeometryMode)
        a4 == pushCrsArgs(a3, ds, r.sourceCrs, r.targetCrs)
        a5 == IF r.layerName # "" THEN a4 \o <<"-nln", r.layerName>> ELSE a4
        w  == whereFromFilter(r.geometryTypeFilter)
        a6 == IF w # "" THEN a5 \o <<"-where", w>> ELSE a5
        a7 == IF r.whereClause # "" THEN a6 \o <<"-where", r.whereClause>> ELSE a6
    IN  IF r.selectFields # "" THEN a7 \o <<"-select", r.selectFields>> ELSE a7

(***************************************************************************)
(* Scratch store (/vsimem): entries [name, data, input]; data abstracts    *)
(* the bytes as the set of their contents, so that "zero bytes" is the     *)
(* empty set and an archive's bytes are the names of its members; input is *)
(* what the engine finds in the bytes of an input file.  The store belongs *)
(* to the process: every thread reads and writes the same entries.         *)
(***************************************************************************)
\* bytes that hold no dataset
NoInput == [member |-> "", openable |-> FALSE, layers |-> <<>>]

Exists(fs, n) == \E e \in fs : e.name = n

DataOf(fs, n) == IF Exists(fs, n) THEN (CHOOSE e \in fs : e.name = n).data ELSE {}

\* VSIUnlink(name)
Unlink(fs, n) == {e \in fs : e.name # n}

\* VSIFileFromMemBuffer / a file written by the engine: replaces the entry
Write(fs, n, d) == Unlink(fs, n) \cup {[name |-> n, data |-> d, input |-> NoInput]}

\* VSIFileFromMemBuffer(name, inputData): the entry holds the caller's bytes
WriteInput(fs, n, input) ==
    Unlink(fs, n) \cup {[name |-> n, data |-> {"input"}, input |-> input]}

\* what the engine finds in the bytes stored under a name
Stored(fs, n) == IF Exists(fs, n) THEN (CHOOSE e \in fs : e.name = n).input ELSE NoInput

HasPrefix(s, pre) == Len(s) >= Len(pre) /\ SubSeq(s, 1, Len(pre)) = pre

\* VSIReadDir(dir): the names directly under dir (empty when dir does not exist)
ReadDir(fs, dir) ==
    {SubSeq(e.name, Len(dir) + 2, Len(e.name)) : e \in {x \in fs : HasPrefix(x.name, dir \o "/")}}

Names(fs) == {e.name : e \in fs}

(***************************************************************************)
(* The input of an operation: the bytes handed in, by what the engine will *)
(* find in them.  member: the archive's first *.shp member ("" when it has *)
(* none); openable: GDALOpenEx answers a dataset; layers: that dataset.    *)
(* A layer is [name, srs, cnt]; cnt[k] is the number of its features in    *)
(* geometry family k of parts; srs: the layer has a spatial reference.     *)
(***************************************************************************)
Layer(n, s, c) == [name |-> n, srs |-> s, cnt |-> c]

Input(m, o, l) == [member |-> m, openable |-> o, layers |-> l]

BaseReq ==
    [inputFormat |-> "geojson", outputFormat |-> "geojson", sourceCrs |-> "",
     targetCrs |-> "", layerName |-> "", geometryTypeFilter |-> "",
     skipFailures |-> FALSE, makeValid |-> FALSE, keepZ |-> FALSE,
     whereClause |-> "", selectFields |-> "", simplifyTolerance |-> 0,
     explodeCollections |-> FALSE, preserveFid |-> FALSE, geojsonPrecision |-> 7,
     csvGeometryMode |-> "WKT", input |-> Input("", FALSE, <<>>)]

\* pickShpInsideZip(zipVsi): the path of the first *.shp member, "" when none
pickShpInsideZip(zipVsi, input) ==
    LET f == input.member
    IN  IF Len(f) > 4 /\ toLower(Suffix(f, 4)) = ".shp" THEN zipVsi \o "/" \o f ELSE ""

\* the scratch name the input bytes are written under (prefix: "/vsimem/input"
\* in convertVector, "/vsimem/preview_input" in getVectorInfo)
InputFile(prefix, inputFormat) ==
    LET inFmt == toLower(inputFormat)
        ext   == getExtensionFromFormat(inFmt)
    IN  IF inFmt = "shapefile" THEN prefix \o ".zip"
        ELSE prefix \o (IF ext = ".zip" THEN ".dat" ELSE ext)

\* the path handed to GDALOpenEx once the input is written ("" : no .shp member)
OpenPath(prefix, r) ==
    IF toLower(r.inputFormat) = "shapefile"
    THEN pickShpInsideZip("/vsizip/" \o prefix \o ".zip", r.input)
    ELSE InputFile(prefix, r.inputFormat)

\* countGeomWhere(ds, layerName, where); sqlOk: ExecuteSQL answered a result set
countGeomWhere(layers, layerName, where, sqlOk) ==
    LET hit == {i \in DOMAIN layers : layers[i].name = layerName}
    IN  IF ~sqlOk \/ hit = {} THEN 0
        ELSE LET L == layers[CHOOSE i \in hit : \A j \in hit : i <= j]
             IN  CASE where = WHERE_POINT -> L.cnt[1]
                   [] where = WHERE_MULTIPOINT -> L.cnt[2]
                   [] where = WHERE_LINES -> L.cnt[3]
                   [] where = WHERE_POLYS -> L.cnt[4]
                   [] OTHER -> L.cnt[1] + L.cnt[2] + L.cnt[3] + L.cnt[4]

\* GDALClose(poSrcDS)
CloseSrc(st) == IF st = "open" THEN "closed" ELSE "closed2"

(***************************************************************************)
(* The engine as environment: messages and its own last-error text.        *)
(***************************************************************************)
Msg(c, m) == [cls |-> c, msg |-> m]

\* positions at which the thread is inside (or about to enter) an engine call
EnginePcs ==
    {"c_materialize", "c_open", "c_family", "c_translate", "c_read",
     "p_materialize", "p_open", "p_extract"}

SetChan(ch) ==
    /\ g_lastError' = ch.err
    /\ g_lastInfo' = ch.info
    /\ cplLastMsg' = ch.cpl

\* CPLError / CPLDebug with ErrHandler installed: the engine keeps the text of a
\* warning or failure as its own last error, then calls the handler.
\* alphabet: the messages the engine may report
EngineEmit(alphabet) ==
    /\ pc \in EnginePcs
    /\ handlers > 0
    /\ Len(delivered) < MaxEmit
    /\ \E m \in alphabet :
          /\ SetChan([ErrHandler(Chan, m.cls, m.msg) EXCEPT
                         !.cpl = IF m.cls = "CE_Debug" THEN cplLastMsg ELSE m.msg])
          /\ delivered' = Append(delivered, m)
    /\ UNCHANGED <<pc, op, req, inputPath, driver, handlers, vsimem, srcState, li, pi,
                   calls, exc, result, doc, created>>
    /\ UNCHANGED <<src, other>>

\* CPLErrorReset() inside the engine (its entry points clear the last error)
EngineErrorReset ==
    /\ pc \in EnginePcs
    /\ cplLastMsg # ""
    /\ cplLastMsg' = ""
    /\ UNCHANGED <<pc, op, req, inputPath, driver, g_lastError, g_lastInfo, handlers,
                   vsimem, srcState, li, pi, calls, exc, result, doc, delivered, created>>
    /\ UNCHANGED <<src, other>>

(***************************************************************************)
(* Entry of a public operation that resets the channel and installs the    *)
(* handler (native.cpp 402-429 and 723-732).                               *)
(***************************************************************************)
Enter(name, R, first) ==
    /\ pc = "idle"
    /\ \E r \in R : req' = r
    /\ op' = name
    /\ SetChan(resetLastError(Chan))
    /\ handlers' = handlers + 1
    /\ inputPath' = ""
    /\ driver' = ""
    /\ result' = {}
    /\ doc' = <<>>
    /\ srcState' = "none"
    /\ src' = NoInput
    /\ li' = 1
    /\ pi' = 1
    /\ calls' = <<>>
    /\ exc' = ""
    /\ delivered' = <<>>
    /\ created' = {}
    /\ pc' = first
    /\ UNCHANGED vsimem
    /\ UNCHANGED other

\* writing the input bytes (native.cpp 432-458 and 735-758); writeOk: the
\* scratch store accepted the bytes
Materialize(prefix, open, catch) ==
    \E writeOk \in BOOLEAN :
       LET f == InputFile(prefix, req.inputFormat)
           isShp == toLower(req.inputFormat) = "shapefile"
           path == OpenPath(prefix, req)
       IN  IF ~writeOk
           THEN /\ exc' = IF isShp THEN "Failed to create input ZIP file"
                                   ELSE "Failed to create input virtual file"
                /\ pc' = catch
                /\ UNCHANGED <<vsimem, created, inputPath>>
           ELSE /\ vsimem' = WriteInput(vsimem, f, req.input)
                /\ created' = created \cup {f}
                /\ inputPath' = path
                /\ IF path = ""
                   THEN exc' = "No .shp found in input ZIP" /\ pc' = catch
                   ELSE exc' = exc /\ pc' = open

\* GDALOpenEx(inputPath): a dataset when the bytes are there and readable
CanOpen(prefix) ==
    LET f == InputFile(prefix, req.inputFormat)
    IN  /\ Exists(vsimem, f)
        /\ Stored(vsimem, f).openable
        /\ toLower(req.inputFormat) = "shapefile" =>
               pickShpInsideZip("/vsizip/" \o f, Stored(vsimem, f)) = inputPath

\* the request as the running call sees it: its dataset is the one it opened
Working == [req EXCEPT !.input = src]

(***************************************************************************)
(* Native::convertVector (native.cpp 704-984).                             *)
(***************************************************************************)
ConvertStart(R) == Enter("convert", R, "c_materialize")

\* lines 735-758
C_Materialize ==
    /\ pc = "c_materialize"
    /\ Materialize("/vsimem/input", "c_open", "c_catch")
    /\ UNCHANGED <<op, req, driver, chan, handlers, srcState, li, pi, calls, result,
                   doc, delivered>>
    /\ UNCHANGED <<src, other>>

\* lines 760-770: open the input, decide the driver and the branch
C_Open ==
    /\ pc = "c_open"
    /\ IF CanOpen("/vsimem/input")
       THEN /\ srcState' = "open"
            /\ src' = Stored(vsimem, InputFile("/vsimem/input", req.inputFormat))
            /\ driver' = getDriverNameFromFormat(req.outputFormat)
            /\ exc' = exc
            /\ pc' = IF driver' = "ESRI Shapefile" THEN "c_family" ELSE "c_translate"
       ELSE /\ exc' = "Failed to open input dataset"
            /\ pc' = "c_catch"
            /\ UNCHANGED <<srcState, driver, src>>
    /\ UNCHANGED <<op, req, inputPath, chan, handlers, vsimem, li, pi, calls, result,
                   doc, delivered, created>>
    /\ UNCHANGED other

baseDir == "/vsimem/shp_output"

\* a family loop without the "if (cnt <= 0) continue": every family is translated
FamilyStepNoSkip(r, drv, i, k, sqlOk, trOk) ==
    LET layers == r.input.layers
        p == parts[k]
        srcLayerName == layers[i].name
        baseName == FamilyBaseName(r, srcLayerName, p)
    IN  [layer |-> i, family |-> k,
         cnt |-> countGeomWhere(layers, srcLayerName, p.where, sqlOk),
         ran |-> TRUE, ok |-> trOk,
         dst |-> baseDir \o "/" \o baseName \o ".shp",
         member |-> baseName \o ".shp",
         args |-> FamilyArgs(r, layers, drv, srcLayerName, p)]

\* what one pass of the family loop does, as logged in calls
FamilyStep(r, drv, i, k, sqlOk, trOk) ==
    LET layers == r.input.layers
        p == parts[k]
        srcLayerName == layers[i].name
        cnt == countGeomWhere(layers, srcLayerName, p.where, sqlOk)
        baseName == FamilyBaseName(r, srcLayerName, p)
    IN  IF cnt <= 0
        THEN [layer |-> i, family |-> k, cnt |-> cnt, ran |-> FALSE, ok |-> FALSE,
              dst |-> "", member |-> "", args |-> <<>>]
        ELSE [layer |-> i, family |-> k, cnt |-> cnt, ran |-> TRUE, ok |-> trOk,
              dst |-> baseDir \o "/" \o baseName \o ".shp",
              member |-> baseName \o ".shp",
              args |-> FamilyArgs(r, layers, drv, srcLayerName, p)]

\* a family loop that gives up at the first translate that answers no dataset
AfterFamilyAbort(step) ==
    IF step.ran /\ ~step.ok
    THEN [pc |-> "c_catch", exc |-> "Vector translate failed"]
    ELSE [pc |-> "c_family", exc |-> ""]

\* lines 823-826: a family whose translate answered no dataset is skipped
\* ("continue"): the loop goes on and nothing is thrown
AfterFamily(step) == [pc |-> "c_family", exc |-> ""]

\* lines 788-828: one geometry family of one layer; sqlOk: the count query
\* answered; trOk: the translate answered a dataset
C_Family ==
    /\ pc = "c_family"
    /\ li <= Len(src.layers)
    /\ \E sqlOk \in BOOLEAN, trOk \in BOOLEAN :
          LET step == FamilyStep(Working, driver, li, pi, sqlOk, trOk)
          IN  /\ calls' = Append(calls, step)
              /\ IF step.ok
                 THEN /\ vsimem' = Write(vsimem, step.dst, {step.member})
                      /\ created' = created \cup {step.dst}
                 ELSE UNCHANGED <<vsimem, created>>
              /\ pc' = AfterFamily(step).pc
              /\ exc' = AfterFamily(step).exc
    /\ IF pi < Len(parts)
       THEN pi' = pi + 1 /\ li' = li
       ELSE pi' = 1 /\ li' = li + 1
    /\ UNCHANGED <<op, req, inputPath, driver, chan, handlers, srcState, result, doc,
                   delivered>>
    /\ UNCHANGED <<src, other>>

\* lines 831-872: pack the directory into /vsimem/output.zip and read it back;
\* written: the members whose VSIFOpenL inside the archive succeeded
C_Collect ==
    /\ pc = "c_family"
    /\ li > Len(src.layers)
    /\ LET fileList == ReadDir(vsimem, baseDir)
           zipPath == "/vsimem/output.zip"
       IN  IF fileList = {}
           THEN /\ exc' = "No shapefile components created"
                /\ pc' = "c_catch"
                /\ UNCHANGED <<vsimem, created, result>>
           ELSE \E written \in SUBSET {f \in fileList : DataOf(vsimem, baseDir \o "/" \o f) # {}} :
                   LET cleared == {e \in vsimem : ~HasPrefix(e.name, baseDir \o "/")}
                       zipData == DataOf(vsimem, zipPath) \cup written
                   IN  /\ created' = IF written # {} THEN created \cup {zipPath} ELSE created
                       /\ vsimem' = Unlink(cleared, zipPath)
                       /\ IF zipData # {}
                          THEN result' = zipData /\ exc' = exc /\ pc' = "c_close"
                          ELSE /\ result' = result
                               /\ exc' = "Failed to create shapefile ZIP"
                               /\ pc' = "c_catch"
    /\ UNCHANGED <<op, req, inputPath, driver, chan, handlers, srcState, li, pi, calls,
                   doc, delivered>>
    /\ UNCHANGED <<src, other>>

\* lines 875-928: the single translate of the non-shapefile branch;
\* trOk: the engine answered a dataset; hasBytes: the file it wrote is not empty
C_Translate ==
    /\ pc = "c_translate"
    /\ \E trOk \in BOOLEAN, hasBytes \in BOOLEAN :
          LET outPath == "/vsimem/output" \o getExtensionFromFormat(req.outputFormat)
              args == SingleArgs(req, src.layers, driver)
          IN  /\ calls' = Append(calls, [layer |-> 0, family |-> 0, cnt |-> 0,
                                         ran |-> TRUE, ok |-> trOk, dst |-> outPath,
                                         member |-> "", args |-> args])
              /\ IF trOk
                 THEN /\ vsimem' = Write(vsimem, outPath, IF hasBytes THEN {"output"} ELSE {})
                      /\ created' = created \cup {outPath}
                      /\ srcState' = srcState
                      /\ exc' = exc
                      /\ pc' = "c_read"
                 ELSE /\ srcState' = CloseSrc(srcState)
                      /\ exc' = "Vector translate failed"
                      /\ pc' = "c_catch"
                      /\ UNCHANGED <<vsimem, created>>
    /\ UNCHANGED <<op, req, inputPath, driver, chan, handlers, li, pi, result, doc,
                   delivered>>
    /\ UNCHANGED <<src, other>>

\* lines 930-940: read the output file back
C_Read ==
    /\ pc = "c_read"
    /\ LET outPath == "/vsimem/output" \o getExtensionFromFormat(req.outputFormat)
           buf == DataOf(vsimem, outPath)
       IN  /\ vsimem' = Unlink(vsimem, outPath)
           /\ IF buf = {}
              THEN /\ srcState' = CloseSrc(srcState)
                   /\ exc' = "Failed to read output data"
                   /\ pc' = "c_catch"
                   /\ result' = result
              ELSE /\ result' = buf
                   /\ pc' = "c_close"
                   /\ UNCHANGED <<srcState, exc>>
    /\ UNCHANGED <<op, req, inputPath, driver, chan, handlers, li, pi, calls, doc,
                   delivered, created>>
    /\ UNCHANGED <<src, other>>

\* lines 951-963: the explanation of an empty result that did not throw
EmptyResultMessage(ch, r, drv) ==
    LET c1 == ensureLastErrorMessage(ch)
        e1 == IF c1.err = "" THEN "GDAL returned an empty dataset" ELSE c1.err
        e2 == IF r.sourceCrs # "" \/ r.targetCrs # ""
              THEN e1 \o " (source CRS: "
                      \o (IF r.sourceCrs = "" THEN "auto" ELSE r.sourceCrs)
                      \o ", target CRS: "
                      \o (IF r.targetCrs = "" THEN "auto" ELSE r.targetCrs) \o ")"
              ELSE e1
        e3 == IF drv # "" THEN e2 \o " driver=" \o drv ELSE e2
    IN  [c1 EXCEPT !.err = e3]

\* lines 942-963: close the source, remove the input, explain an empty result
C_Close ==
    /\ pc = "c_close"
    /\ srcState' = CloseSrc(srcState)
    /\ vsimem' = Unlink(vsimem, IF toLower(req.inputFormat) = "shapefile"
                                THEN "/vsimem/input.zip" ELSE inputPath)
    /\ IF result = {}
       THEN SetChan(EmptyResultMessage(Chan, req, driver))
       ELSE UNCHANGED chan
    /\ pc' = "c_epilogue"
    /\ UNCHANGED <<op, req, inputPath, driver, handlers, li, pi, calls, exc, result,
                   doc, delivered, created>>
    /\ UNCHANGED <<src, other>>

\* the body of both catch blocks (lines 693-696 and 967-970)
CatchMessage(ch, what) ==
    LET c1 == ensureLastErrorMessage(ch)
    IN  IF c1.err = "" /\ what # "" THEN [c1 EXCEPT !.err = what] ELSE c1

\* lines 965-972: catch (const std::exception&)
C_Catch ==
    /\ pc = "c_catch"
    /\ SetChan(CatchMessage(Chan, exc))
    /\ result' = {}
    /\ pc' = "c_epilogue"
    /\ UNCHANGED <<op, req, inputPath, driver, handlers, vsimem, srcState, li, pi,
                   calls, exc, doc, delivered, created>>
    /\ UNCHANGED <<src, other>>

\* an epilogue that clears the channel on the way out instead of filling it
FinalMessageCleared(ch) == resetLastError(ch)

\* lines 976-981: the last fallback of an empty result
FinalMessage(ch) ==
    LET c1 == ensureLastErrorMessage(ch)
    IN  IF c1.err = "" THEN [c1 EXCEPT !.err = "No output produced by GDAL"] ELSE c1

\* lines 974-983: remove the handler, explain an empty result, return
C_Epilogue ==
    /\ pc = "c_epilogue"
    /\ handlers' = handlers - 1
    /\ IF result = {} THEN SetChan(FinalMessage(Chan)) ELSE UNCHANGED chan
    /\ pc' = "idle"
    /\ UNCHANGED <<op, req, inputPath, driver, vsimem, srcState, li, pi, calls, exc,
                   result, doc, delivered, created>>
    /\ UNCHANGED <<src, other>>

(***************************************************************************)
(* transformExtentToWgs84 (native.cpp 299-394).  An extent and a box are   *)
(* <<MinX, MinY, MaxX, MaxY>>, a point is <<x, y>>.  The engine's answers   *)
(* are the fields of eng: parseErr (the code SetFromUserInput returns),    *)
(* same (IsSame(WGS84)), createOk (the transformation was created),        *)
(* transform (the map of the transformation), failAt (the index of the     *)
(* first point Transform rejects, or the number of points).                *)
(***************************************************************************)
steps == 8

\* addEdge: steps + 1 points from (x0, y0) to (x1, y1), at t = i / steps
addEdge(x0, y0, x1, y1) ==
    [n \in 1..(steps + 1) |->
        <<x0 + ((x1 - x0) * (n - 1)) \div steps, y0 + ((y1 - y0) * (n - 1)) \div steps>>]

\* the sample points: bottom, right, top and left edge
SamplePoints(extent) ==
    LET MinX == extent[1]  MinY == extent[2]  MaxX == extent[3]  MaxY == extent[4]
    IN  addEdge(MinX, MinY, MaxX, MinY) \o addEdge(MaxX, MinY, MaxX, MaxY)
          \o addEdge(MaxX, MaxY, MinX, MaxY) \o addEdge(MinX, MaxY, MinX, MinY)

\* transform->Transform(1, &x, &y) when it succeeds
Transform(t, pt) ==
    CASE t.kind = "shift" -> <<pt[1] + t.dx, pt[2] + t.dy>>
      [] t.kind = "flip" -> <<0 - pt[1], 0 - pt[2]>>
      [] t.kind = "square" -> <<pt[1] * pt[1], pt[2]>>

Min(S) == CHOOSE a \in S : \A b \in S : a <= b
Max(S) == CHOOSE a \in S : \A b \in S : b <= a

\* the lexical test of lines 315-320
LooksLikeWgs84(sourceCrs) ==
    LET lowerCrs == toLower(sourceCrs)
    IN  \/ lowerCrs \in {"epsg:4326", "wgs84", "wgs 84"}
        \/ Contains(lowerCrs, "wgs84")
        \/ Contains(lowerCrs, "wgs 84")

\* an estimator that writes each transformed point into the box as it goes
transformExtentLeaky(extent, sourceCrs, box, eng) ==
    LET points == SamplePoints(extent)
        done == [i \in 1..eng.failAt |-> Transform(eng.transform, points[i])]
        xs == {done[i][1] : i \in DOMAIN done}
        ys == {done[i][2] : i \in DOMAIN done}
        ok == ~LooksLikeWgs84(sourceCrs) /\ sourceCrs # "" /\ eng.parseErr = 0
              /\ ~eng.same /\ eng.createOk
    IN  [reprojected |-> ok /\ eng.failAt >= Len(points),
         box |-> IF ok /\ done # <<>> THEN <<Min(xs), Min(ys), Max(xs), Max(ys)>> ELSE box,
         debugInfo |-> "",
         parsed |-> FALSE,
         transformed |-> IF ok THEN Len(done) ELSE 0]

\* an estimator whose lexical test knows the exact labels only
transformExtentExactLabels(extent, sourceCrs, box, eng) ==
    [reprojected |-> FALSE, box |-> box,
     debugInfo |-> "Using source CRS: " \o sourceCrs \o "; ",
     parsed |-> sourceCrs # "" /\ toLower(sourceCrs) \notin {"epsg:4326", "wgs84", "wgs 84"},
     transformed |-> 0]

\* an estimator that transforms the four corners only
transformExtentCorners(extent, sourceCrs, box, eng) ==
    LET done == {Transform(eng.transform, <<extent[i], extent[j]>>) :
                    i \in {1, 3}, j \in {2, 4}}
        xs == {q[1] : q \in done}
        ys == {q[2] : q \in done}
        ok == ~LooksLikeWgs84(sourceCrs) /\ sourceCrs # "" /\ eng.parseErr = 0
              /\ ~eng.same /\ eng.createOk /\ eng.failAt >= 4 * (steps + 1)
    IN  [reprojected |-> ok,
         box |-> IF ok THEN <<Min(xs), Min(ys), Max(xs), Max(ys)>> ELSE box,
         debugInfo |-> "Using source CRS: " \o sourceCrs \o "; ",
         parsed |-> TRUE,
         transformed |-> IF ok THEN 4 ELSE 0]

\* transformExtentToWgs84(extent, sourceCrs, minX, minY, maxX, maxY, debugInfo):
\* the return value, the box left in the four output arguments, the text
\* appended to debugInfo, whether the parser was called, and the number of
\* calls of Transform
transformExtentToWgs84(extent, sourceCrs, box, eng) ==
    LET using == "Using source CRS: " \o sourceCrs \o "; "
        points == SamplePoints(extent)
        stop(text, p, n) ==
            [reprojected |-> FALSE, box |-> box, debugInfo |-> text,
             parsed |-> p, transformed |-> n]
    IN  IF sourceCrs = "" THEN stop("Source CRS is empty; ", FALSE, 0)
        ELSE IF LooksLikeWgs84(sourceCrs)
        THEN stop(using \o "Already WGS84 (detected from CRS string), skipping; ", FALSE, 0)
        ELSE IF eng.parseErr # 0
        THEN stop(using \o "SetFromUserInput failed (error "
                        \o IntToString(eng.parseErr) \o "); ", TRUE, 0)
        ELSE IF eng.same THEN stop(using \o "Already WGS84, skipping; ", TRUE, 0)
        ELSE IF ~eng.createOk
        THEN stop(using \o "OGRCreateCoordinateTransformation failed; ", TRUE, 0)
        ELSE IF eng.failAt < Len(points)
        THEN stop(using \o "OGR transform failed at point "
                        \o IntToString(eng.failAt) \o "; ", TRUE, eng.failAt + 1)
        ELSE LET done == [i \in DOMAIN points |-> Transform(eng.transform, points[i])]
                 xs == {done[i][1] : i \in DOMAIN done}
                 ys == {done[i][2] : i \in DOMAIN done}
             IN  [reprojected |-> TRUE,
                  box |-> <<Min(xs), Min(ys), Max(xs), Max(ys)>>,
                  debugInfo |-> using \o "OGR reprojection successful; ",
                  parsed |-> TRUE,
                  transformed |-> Len(points)]

(***************************************************************************)
(* Native::getVectorInfo (native.cpp 397-702).                             *)
(***************************************************************************)
PreviewStart(R) == Enter("preview", R, "p_materialize")

\* lines 432-458
P_Materialize ==
    /\ pc = "p_materialize"
    /\ Materialize("/vsimem/preview_input", "p_open", "p_catch")
    /\ UNCHANGED <<op, req, driver, chan, handlers, srcState, li, pi, calls, result,
                   doc, delivered>>
    /\ UNCHANGED <<src, other>>

\* lines 460-464: open the input
P_Open ==
    /\ pc = "p_open"
    /\ IF CanOpen("/vsimem/preview_input")
       THEN /\ srcState' = "open"
            /\ src' = Stored(vsimem, InputFile("/vsimem/preview_input", req.inputFormat))
            /\ exc' = exc
            /\ pc' = "p_extract"
       ELSE /\ srcState' = srcState
            /\ src' = src
            /\ exc' = "Failed to open input dataset"
            /\ pc' = "p_catch"
    /\ UNCHANGED <<op, req, inputPath, driver, chan, handlers, vsimem, li, pi, calls,
                   result, doc, delivered, created>>
    /\ UNCHANGED other

\* lines 627-669: one entry of "properties"; f.state is "value", "null" or
\* "unset", f.num the numeric value and f.text the textual form of the field
FieldPreview(f) ==
    IF f.state = "value"
    THEN CASE f.type \in {"OFTInteger", "OFTInteger64"} ->
                [name |-> f.name, value |-> IntToString(f.num), type |-> "Integer"]
           [] f.type = "OFTReal" ->
                [name |-> f.name, value |-> DoubleToString(f.num), type |-> "Float"]
           [] f.type = "OFTString" ->
                [name |-> f.name, value |-> "\"" \o f.text \o "\"", type |-> "String"]
           [] f.type \in {"OFTDate", "OFTDateTime"} ->
                [name |-> f.name, value |-> "\"" \o f.text \o "\"", type |-> "Date"]
           [] OTHER ->
                [name |-> f.name, value |-> "\"" \o f.text \o "\"", type |-> "String"]
    ELSE [name |-> f.name, value |-> "null", type |-> "String"]

\* the label handed to the estimator (lines 476, 540, 546, 554-563, 589)
CrsLabel(r, eng) ==
    IF r.sourceCrs # "" THEN r.sourceCrs
    ELSE IF Len(r.input.layers) > 0 /\ r.input.layers[1].srs THEN eng.layerLabel
    ELSE "Unknown"

\* the extent is read and estimated (lines 479-481, 573)
TakesExtent(r, eng) == Len(r.input.layers) > 0 /\ eng.extentOk

\* std::to_string of the four values of a box
BoxText(box) == [i \in 1..4 |-> DoubleToString(box[i])]

\* lines 466-682: the metadata document, by the keys the code writes; eng:
\* what the engine answers about the first layer (extentOk: GetExtent answered
\* OGRERR_NONE; hasFeature, fields: its first feature)
PreviewDocument(r, eng) ==
    LET layers == r.input.layers
        head == "layers" :> Len(layers)
        L == layers[1]
        first ==
            IF Len(layers) > 0
            THEN ("featureCount" :> (L.cnt[1] + L.cnt[2] + L.cnt[3] + L.cnt[4]))
                 @@ ("geometryType" :> "Unknown")
                 @@ ("crs" :> CrsLabel(r, eng))
                 @@ ("debugCrs" :> (IF r.sourceCrs # "" THEN "user" ELSE "none"))
            ELSE <<>>
        est == transformExtentToWgs84(eng.extent, CrsLabel(r, eng), eng.extent, eng)
        box ==
            IF TakesExtent(r, eng)
            THEN ("bboxOriginal" :> BoxText(eng.extent))
                 @@ ("bboxReprojected" :> est.reprojected)
                 @@ ("debugTransform" :> est.debugInfo)
                 @@ ("bbox" :> BoxText(est.box))
            ELSE <<>>
        properties ==
            IF Len(layers) > 0 /\ eng.hasFeature
            THEN [i \in DOMAIN eng.fields |-> FieldPreview(eng.fields[i])]
            ELSE <<>>
    IN  head @@ first @@ box @@ ("properties" :> properties)

\* lines 466-690: build the document, close the dataset, remove the input;
\* calls logs the engine's answers and what the estimator did with them
P_Extract(Envs) ==
    /\ pc = "p_extract"
    /\ \E eng \in Envs :
          /\ doc' = PreviewDocument(Working, eng)
          /\ calls' = <<[ran |-> FALSE, eng |-> eng,
                         est |-> IF TakesExtent(Working, eng)
                                 THEN <<transformExtentToWgs84(eng.extent, CrsLabel(Working, eng),
                                                               eng.extent, eng)>>
                                 ELSE <<>>]>>
    /\ srcState' = CloseSrc(srcState)
    /\ vsimem' = Unlink(vsimem, IF toLower(req.inputFormat) = "shapefile"
                                THEN "/vsimem/preview_input.zip" ELSE inputPath)
    /\ pc' = "p_epilogue"
    /\ UNCHANGED <<op, req, inputPath, driver, chan, handlers, li, pi, exc,
                   result, delivered, created>>
    /\ UNCHANGED <<src, other>>

\* a catch block that leaves the initial "{}" in place
ErrorDocumentDropped(what) == <<>>

\* line 697: the document of a failed preview
ErrorDocument(what) == "error" :> what

\* lines 692-698: catch (const std::exception&)
P_Catch ==
    /\ pc = "p_catch"
    /\ SetChan(CatchMessage(Chan, exc))
    /\ doc' = ErrorDocument(exc)
    /\ pc' = "p_epilogue"
    /\ UNCHANGED <<op, req, inputPath, driver, handlers, vsimem, srcState, li, pi,
                   calls, exc, result, delivered, created>>
    /\ UNCHANGED <<src, other>>

\* lines 700-701: remove the handler, return
P_Epilogue ==
    /\ pc = "p_epilogue"
    /\ handlers' = handlers - 1
    /\ pc' = "idle"
    /\ UNCHANGED <<op, req, inputPath, driver, chan, vsimem, srcState, li, pi, calls,
                   exc, result, doc, delivered, created>>
    /\ UNCHANGED <<src, other>>

(***************************************************************************)
(* Native::getGdalInfo (native.cpp 17-27): touches no diagnostic state.    *)
(***************************************************************************)
GetGdalInfo ==
    /\ pc = "idle"
    /\ op # "info"
    /\ op' = "info"
    /\ req' = BaseReq
    /\ inputPath' = ""
    /\ driver' = ""
    /\ result' = {}
    /\ doc' = ("info" :> "GDAL Version: ")
    /\ srcState' = "none"
    /\ src' = NoInput
    /\ li' = 1
    /\ pi' = 1
    /\ calls' = <<>>
    /\ exc' = ""
    /\ delivered' = <<>>
    /\ created' = {}
    /\ UNCHANGED <<pc, chan, handlers, vsimem>>
    /\ UNCHANGED other

(***************************************************************************)
(* Two calling threads.  All state but the scratch store is local to the   *)
(* calling thread: the locals of the running call, the thread_local        *)
(* g_lastError and g_lastInfo (native.cpp 65-66), and the engine's         *)
(* per-thread error state and handler stack.  The variables above hold the *)
(* locals of the thread that is running, other those of the thread that is *)
(* not; a context switch exchanges them.  /vsimem is shared.               *)
(***************************************************************************)
Local ==
    [pc |-> pc, op |-> op, req |-> req, inputPath |-> inputPath, driver |-> driver,
     g_lastError |-> g_lastError, g_lastInfo |-> g_lastInfo, cplLastMsg |-> cplLastMsg,
     handlers |-> handlers, srcState |-> srcState, li |-> li, pi |-> pi,
     calls |-> calls, exc |-> exc, result |-> result, doc |-> doc,
     delivered |-> delivered, created |-> created, src |-> src]

\* the locals of a thread that has not called anything yet
Parked ==
    [pc |-> "idle", op |-> "none", req |-> BaseReq, inputPath |-> "", driver |-> "",
     g_lastError |-> "", g_lastInfo |-> "", cplLastMsg |-> "",
     handlers |-> 0, srcState |-> "none", li |-> 1, pi |-> 1,
     calls |-> <<>>, exc |-> "", result |-> {}, doc |-> <<>>,
     delivered |-> <<>>, created |-> {}, src |-> NoInput]

\* a switch under which g_lastError is one variable of the process
SwitchSharedError ==
    /\ other' = Local
    /\ pc' = other.pc /\ op' = other.op /\ req' = other.req
    /\ inputPath' = other.inputPath /\ driver' = other.driver
    /\ g_lastError' = g_lastError
    /\ g_lastInfo' = other.g_lastInfo /\ cplLastMsg' = other.cplLastMsg
    /\ handlers' = other.handlers /\ srcState' = other.srcState
    /\ li' = other.li /\ pi' = other.pi /\ calls' = other.calls
    /\ exc' = other.exc /\ result' = other.result /\ doc' = other.doc
    /\ delivered' = other.delivered /\ created' = other.created
    /\ src' = other.src
    /\ UNCHANGED vsimem

\* the scheduler runs the other thread
Switch ==
    /\ other' = Local
    /\ pc' = other.pc /\ op' = other.op /\ req' = other.req
    /\ inputPath' = other.inputPath /\ driver' = other.driver
    /\ g_lastError' = other.g_lastError
    /\ g_lastInfo' = other.g_lastInfo /\ cplLastMsg' = other.cplLastMsg
    /\ handlers' = other.handlers /\ srcState' = other.srcState
    /\ li' = other.li /\ pi' = other.pi /\ calls' = other.calls
    /\ exc' = other.exc /\ result' = other.result /\ doc' = other.doc
    /\ delivered' = other.delivered /\ created' = other.created
    /\ src' = other.src
    /\ UNCHANGED vsimem

(***************************************************************************)
(* Specifications.                                                         *)
(***************************************************************************)
Init ==
    /\ pc = "idle"
    /\ op = "none"
    /\ req = BaseReq
    /\ inputPath = ""
    /\ driver = ""
    /\ g_lastError = ""
    /\ g_lastInfo = ""
    /\ cplLastMsg = ""
    /\ handlers = 0
    /\ vsimem = {}
    /\ srcState = "none"
    /\ li = 1
    /\ pi = 1
    /\ calls = <<>>
    /\ exc = ""
    /\ result = {}
    /\ doc = <<>>
    /\ delivered = <<>>
    /\ created = {}
    /\ src = NoInput
    /\ other = Parked

\* the steps of a running convertVector
ConvertSteps ==
    \/ C_Materialize \/ C_Open \/ C_Family \/ C_Collect \/ C_Translate \/ C_Read
    \/ C_Close \/ C_Catch \/ C_Epilogue

\* the steps of a running getVectorInfo
PreviewSteps(Envs) ==
    \/ P_Materialize \/ P_Open \/ P_Extract(Envs) \/ P_Catch \/ P_Epilogue

\* the engine's answers about a layer: its extent, the CRS label and the
\* transformation, its first feature
Engine(ok, e, err, same, create, fail, t, label, has, fs) ==
    [extentOk |-> ok, extent |-> e, parseErr |-> err, same |-> same,
     createOk |-> create, failAt |-> fail, transform |-> t, layerLabel |-> label,
     hasFeature |-> has, fields |-> fs]

Shift(dx, dy) == [kind |-> "shift", dx |-> dx, dy |-> dy]

\* no extent, no feature
BlindEngine ==
    Engine(FALSE, <<0, 0, 0, 0>>, 0, FALSE, TRUE, 4 * (steps + 1), Shift(0, 0),
           "EPSG:4326", FALSE, <<>>)

DiagEnvs ==
    {BlindEngine, [BlindEngine EXCEPT !.extentOk = TRUE, !.extent = <<0, 0, 8, 16>>]}

OneLayer == <<Layer("a", TRUE, <<0, 1, 0, 0>>)>>

\* requests of the diagnostic specification: one per failure class
DiagConverts ==
    {[BaseReq EXCEPT !.inputFormat = "Shapefile", !.input = Input("readme.txt", TRUE, OneLayer)],
     [BaseReq EXCEPT !.input = Input("", FALSE, <<>>)],
     [BaseReq EXCEPT !.outputFormat = "pmtiles", !.input = Input("", TRUE, OneLayer)],
     [BaseReq EXCEPT !.outputFormat = "shapefile", !.input = Input("", TRUE, OneLayer)]}

DiagPreviews ==
    {[BaseReq EXCEPT !.inputFormat = "Shapefile", !.input = Input("readme.txt", TRUE, OneLayer)],
     [BaseReq EXCEPT !.input = Input("", FALSE, <<>>)],
     [BaseReq EXCEPT !.input = Input("", TRUE, OneLayer)]}

EngineAlphabet ==
    {Msg(c, m) : c \in {"CE_Debug", "CE_Warning", "CE_Failure"},
                 m \in {"", "I/O error", "Unable to find driver `PMTiles'"}}

Next ==
    \/ ConvertStart(DiagConverts)
    \/ PreviewStart(DiagPreviews)
    \/ GetGdalInfo
    \/ ConvertSteps
    \/ PreviewSteps(DiagEnvs)
    \/ EngineEmit(EngineAlphabet)
    \/ EngineErrorReset

Spec == Init /\ [][Next]_vars

(***************************************************************************)
(* Specification of the geometry-family splitter: conversions of datasets  *)
(* of up to MaxLayers layers, to the shapefile and to a single-file driver. *)
(***************************************************************************)
LayerNames == <<"roads", "pois", "parcels", "rivers">>

\* feature counts per family (point, multipoint, lines, polygons) of a layer
LayerProfiles == {<<3, 0, 5, 2>>, <<0, 1, 0, 0>>, <<0, 0, 0, 0>>}

SplitLayers ==
    UNION {[1..n -> LayerProfiles] : n \in 0..MaxLayers}

SplitDataset(f) == [i \in DOMAIN f |-> Layer(LayerNames[i], TRUE, f[i])]

SplitRequests ==
    {[BaseReq EXCEPT !.outputFormat = o, !.layerName = n,
                     !.input = Input("", TRUE, SplitDataset(f))] :
        o \in {"shapefile", "GeoJSON"}, n \in {"", "out"}, f \in SplitLayers}

NextSplit ==
    \/ ConvertStart(SplitRequests)
    \/ ConvertSteps

SpecSplit == Init /\ [][NextSplit]_vars

(***************************************************************************)
(* Specification of the CRS policy: conversions under every combination of *)
(* user source CRS, user target CRS and embedded CRS of the layers.        *)
(***************************************************************************)
CrsLabels == {"", "EPSG:4326", "EPSG:3857"}

CrsDatasets ==
    {<<>>} \cup {<<Layer("roads", s, <<0, 1, 0, 0>>)>> : s \in BOOLEAN}
    \cup {<<Layer("roads", s, <<2, 0, 0, 0>>), Layer("pois", t, <<0, 0, 0, 1>>)>> :
             s \in BOOLEAN, t \in BOOLEAN}

CrsRequests ==
    {[BaseReq EXCEPT !.outputFormat = o, !.sourceCrs = a, !.targetCrs = b,
                     !.input = Input("", TRUE, ds)] :
        o \in {"shapefile", "GeoJSON", "csv"}, a \in CrsLabels, b \in CrsLabels,
        ds \in CrsDatasets}

NextCrs ==
    \/ ConvertStart(CrsRequests)
    \/ ConvertSteps

SpecCrs == Init /\ [][NextCrs]_vars

(***************************************************************************)
(* Specification of the format registry: conversions to every registered   *)
(* output name in three casings and to names that are not registered.      *)
(***************************************************************************)
RECURSIVE ToUpper(_)
ToUpper(s) ==
    IF s = "" THEN ""
    ELSE LET c == SubSeq(s, 1, 1)
             up == {u \in DOMAIN UpperToLower : UpperToLower[u] = c}
         IN  (IF up = {} THEN c ELSE CHOOSE u \in up : TRUE)
                 \o ToUpper(SubSeq(s, 2, Len(s)))

Capitalize(s) == IF s = "" THEN "" ELSE ToUpper(SubSeq(s, 1, 1)) \o SubSeq(s, 2, Len(s))

RegisteredNames == {DriverTable[i][1] : i \in DOMAIN DriverTable}

UnregisteredNames == {"", "gpkg", "shp", "json", "geojson ", "esri shapefile", "kmz"}

FormatNames ==
    UNION {{n, ToUpper(n), Capitalize(n)} : n \in RegisteredNames \cup UnregisteredNames}

RegistryRequests ==
    {[BaseReq EXCEPT !.outputFormat = n, !.input = Input("", TRUE, OneLayer)] :
        n \in FormatNames}

NextRegistry ==
    \/ ConvertStart(RegistryRequests)
    \/ ConvertSteps

SpecRegistry == Init /\ [][NextRegistry]_vars

(***************************************************************************)
(* Specification of the directive lists: conversions of a layer holding    *)
(* every geometry family, with and without the user's filters.             *)
(***************************************************************************)
MixedLayer == <<Layer("roads", TRUE, <<3, 1, 5, 2>>)>>

OptionRequests ==
    {[BaseReq EXCEPT !.outputFormat = o, !.whereClause = w,
                     !.geometryTypeFilter = g, !.explodeCollections = e,
                     !.input = Input("", TRUE, MixedLayer)] :
        o \in {"shapefile", "GeoJSON", "csv"}, w \in {"", "pop > 100"},
        g \in {"", "point", "polygon"}, e \in BOOLEAN}

NextOptions ==
    \/ ConvertStart(OptionRequests)
    \/ ConvertSteps

SpecOptions == Init /\ [][NextOptions]_vars

(***************************************************************************)
(* Specification of the extent estimator: previews under every CRS label   *)
(* class, extent shape, engine answer and transformation of the bounds.    *)
(***************************************************************************)
ExtentLabels ==
    {"", "EPSG:4326", "WGS84", "Wgs 84", "NAD83 / WGS 84 grid", "EPSG:3857"}

LayerLabels == {"", "EPSG:4326", "EPSG:32633"}

Extents == {<<0, 0, 8, 16>>, <<-16, -8, 16, 8>>, <<8, 8, 8, 8>>}

Transforms ==
    {Shift(8, -24), [kind |-> "flip", dx |-> 0, dy |-> 0],
     [kind |-> "square", dx |-> 0, dy |-> 0]}

ExtentEnvs ==
    {BlindEngine} \cup
    {Engine(TRUE, e, err, same, create, fail, t, label, FALSE, <<>>) :
        e \in Extents, err \in {0, 6}, same \in BOOLEAN, create \in BOOLEAN,
        fail \in {0, 20, 35, 4 * (steps + 1)}, t \in Transforms, label \in LayerLabels}

ExtentRequests ==
    {[BaseReq EXCEPT !.sourceCrs = c,
                     !.input = Input("", TRUE, <<Layer("roads", srs, <<0, 1, 0, 0>>)>>)] :
        c \in ExtentLabels, srs \in BOOLEAN}

NextExtent ==
    \/ PreviewStart(ExtentRequests)
    \/ PreviewSteps(ExtentEnvs)

SpecExtent == Init /\ [][NextExtent]_vars

(***************************************************************************)
(* Specification of the field preview: previews of a first feature with    *)
(* fields of every declared type, holding a value, null, or unset.         *)
(***************************************************************************)
FieldTypes ==
    {"OFTInteger", "OFTInteger64", "OFTReal", "OFTString", "OFTDate", "OFTDateTime",
     "OFTTime", "OFTBinary"}

Field(n, t, st) == [name |-> n, type |-> t, state |-> st, num |-> 7, text |-> "7"]

FieldSeqs ==
    {<<>>} \cup {<<Field("a", t, st)>> : t \in FieldTypes, st \in {"value", "null", "unset"}}
    \cup {<<Field("a", "OFTString", "value"), Field("b", t, st)>> :
              t \in FieldTypes, st \in {"value", "null"}}

FieldEnvs ==
    {BlindEngine} \cup
    {[BlindEngine EXCEPT !.hasFeature = TRUE, !.fields = fs] : fs \in FieldSeqs}

FieldRequests ==
    {[BaseReq EXCEPT !.input = Input("", o, OneLayer)] : o \in BOOLEAN}

NextFields ==
    \/ PreviewStart(FieldRequests)
    \/ PreviewSteps(FieldEnvs)

SpecFields == Init /\ [][NextFields]_vars

(***************************************************************************)
(* Specification of two threads calling convert and preview with the same  *)
(* input format, each call on bytes of its own.                            *)
(***************************************************************************)
RaceInputs ==
    {Input("", TRUE, <<Layer("roads", TRUE, <<0, 1, 0, 0>>)>>),
     Input("", TRUE, <<Layer("pois", TRUE, <<2, 0, 0, 0>>)>>)}

RaceRequests == {[BaseReq EXCEPT !.input = i] : i \in RaceInputs}

NextRace ==
    \/ ConvertStart(RaceRequests)
    \/ PreviewStart(RaceRequests)
    \/ C_Materialize \/ C_Open \/ C_Translate \/ C_Read \/ C_Close \/ C_Catch
    \/ C_Epilogue
    \/ PreviewSteps({BlindEngine})
    \/ Switch

SpecRace == Init /\ [][NextRace]_vars

(***************************************************************************)
(* Properties.                                                             *)
(***************************************************************************)
\* the operation has returned to its caller
Returned(name) == pc = "idle" /\ op = name

\* the translate calls of the running or returned operation
Translates == {c \in Range(calls) : c.ran}

CrsFlags == {"-s_srs", "-t_srs", "-a_srs"}

\* the CRS directive of a directive list: its CRS flags, each with its value
CrsDirective(args) ==
    LET keep == {i \in DOMAIN args :
                    args[i] \in CrsFlags \/ (i > 1 /\ args[i - 1] \in CrsFlags)}
        F[n \in 0..Len(args)] ==
            IF n = 0 THEN <<>>
            ELSE IF n \in keep THEN Append(F[n - 1], args[n]) ELSE F[n - 1]
    IN  F[Len(args)]

\* the decision table of the CRS policy; embedded: the dataset's first layer
\* carries a spatial reference
CrsTable(source, target, embedded) ==
    CASE source # "" /\ target # "" /\ source # target ->
             <<"-s_srs", source, "-t_srs", target>>
      [] source # "" /\ target = "" -> <<"-a_srs", source>>
      [] source = "" /\ target # "" ->
             IF embedded THEN <<"-t_srs", target>> ELSE <<"-a_srs", target>>
      [] source = "" /\ target = "" -> <<>>
      [] OTHER -> <<"undefined">>

\* C1: every translate of a conversion carries exactly the CRS directive of the
\* decision table: both CRS given and different -> -s_srs source -t_srs target;
\* only source -> -a_srs source whatever the dataset embeds; only target ->
\* -a_srs target when the dataset (its first layer) has no CRS, else -t_srs
\* target; neither -> no CRS directive.
C1_CrsDecisionTable ==
    \A c \in Translates :
        (req.sourceCrs = "" \/ req.targetCrs = "" \/ req.sourceCrs # req.targetCrs)
        => CrsDirective(c.args)
             = CrsTable(req.sourceCrs, req.targetCrs, FirstLayerHasSrs(req.input.layers))

\* a returned conversion whose translate got a lone target CRS for a dataset
\* that embeds one, and asked for a transform
C1_Witness ==
    /\ Returned("convert")
    /\ req.sourceCrs = "" /\ req.targetCrs = "EPSG:3857"
    /\ FirstLayerHasSrs(req.input.layers)
    /\ \E c \in Translates : c.ok /\ CrsDirective(c.args) = <<"-t_srs", "EPSG:3857">>

\* C2: convert never raises past its boundary and every failure collapses to
\* an empty result plus a diagnostic: once convert has returned, the handler is
\* removed, a raised failure left the result empty, and an empty result comes
\* with a non-empty lastError().
C2_EmptyResultHasDiagnostic ==
    Returned("convert") =>
        /\ handlers = 0
        /\ (exc # "" => result = {})
        /\ (result = {} => getLastError # "")

\* a conversion that returned empty bytes (the output had zero bytes) while the
\* engine reported nothing at all
C2_Witness ==
    /\ Returned("convert")
    /\ result = {}
    /\ delivered = <<>>
    /\ exc = "Failed to read output data"
    /\ getLastError = "Failed to read output data"

\* C3: every scratch file created by a convert or preview call is removed
\* before that call returns, on every exit path: between operations the scratch
\* store (empty at start, written by these calls only) holds no entry.
C3_ScratchRemovedOnReturn == pc = "idle" => Names(vsimem) = {}

\* the input is a shapefile archive without a *.shp member
NoShpMember(r) ==
    toLower(r.inputFormat) = "shapefile" /\ pickShpInsideZip("/vsizip/", r.input) = ""

\* C4: preview never raises past its boundary and every failure (no .shp member
\* in the archive, a failed scratch write, an input the engine cannot open) is
\* returned as a document whose only key is "error"; a preview that did not
\* fail returns the complete document, never the initial "{}"; convert on the
\* archive without a .shp member returns empty bytes.
C4_PreviewErrorDocument ==
    /\ Returned("preview") =>
          /\ handlers = 0
          /\ (exc # "" \/ NoShpMember(req) \/ ~req.input.openable) =>
                 (exc # "" /\ DOMAIN doc = {"error"} /\ doc["error"] = exc)
          /\ exc = "" => ("properties" \in DOMAIN doc /\ "error" \notin DOMAIN doc)
    /\ (Returned("convert") /\ NoShpMember(req)) => (exc # "" /\ result = {})

\* a preview of an archive without a .shp member has returned its error document
C4_Witness ==
    /\ Returned("preview")
    /\ NoShpMember(req)
    /\ exc = "No .shp found in input ZIP"
    /\ doc = ErrorDocument("No .shp found in input ZIP")

\* the texts of the messages of seq whose class is in classes and whose text is
\* not empty, in the order of delivery
Texts(seq, classes) ==
    LET keep(m) == m.cls \in classes /\ m.msg # ""
    IN  [i \in 1..Len(SelectSeq(seq, keep)) |-> SelectSeq(seq, keep)[i].msg]

FailureClasses == {"CE_Failure", "CE_Fatal"}
InfoClasses == {"CE_Warning", "CE_Debug"}

First(texts) == IF texts = <<>> THEN "" ELSE texts[1]
Last(texts) == IF texts = <<>> THEN "" ELSE texts[Len(texts)]

\* a convert or preview is running or has returned
InOperation == op \in {"convert", "preview"}

\* the statement of C5 as written: after the operation returned, lastError() is
\* the FIRST Failure-severity text delivered during it.
C5_FirstFailureKept ==
    (InOperation /\ pc = "idle" /\ Texts(delivered, FailureClasses) # <<>>)
        => getLastError = First(Texts(delivered, FailureClasses))

\* C5 (amended): from the moment a Failure-severity message with a non-empty
\* text is delivered, the last message of the channel is the MOST RECENT such
\* text: a later Failure text replaces it, a later Warning or Debug message and
\* the locally raised failure text do not, and lastError() returns it after
\* the operation returned.
C5_LastFailureKept ==
    (InOperation /\ Texts(delivered, FailureClasses) # <<>>)
        => getLastError = Last(Texts(delivered, FailureClasses))

\* an operation returned after two Failure messages with different texts
C5_Witness ==
    /\ InOperation /\ pc = "idle"
    /\ Len(Texts(delivered, FailureClasses)) = 2
    /\ First(Texts(delivered, FailureClasses)) # Last(Texts(delivered, FailureClasses))
    /\ getLastError = Last(Texts(delivered, FailureClasses))

\* the statement of C6 as written: after any public operation (convert,
\* preview, engineVersionInfo) during which no message was recorded and which
\* did not fail, lastError() is empty.
C6_ResetByEveryOperation ==
    (pc = "idle" /\ op \in {"convert", "preview", "info"}
        /\ delivered = <<>> /\ exc = "")
        => getLastError = ""

\* C6 (amended): the diagnostic state is reset at the start of every convert
\* and every preview: what lastError() returns after one of them is a text
\* delivered or raised during that same operation, it is the raised text (empty
\* when nothing was raised) when no message was delivered, whatever the earlier
\* operations left behind; engineVersionInfo does not reset the state and
\* leaves the three texts as they were.
C6_ResetByConvertAndPreview ==
    /\ [](/\ (InOperation /\ pc = "idle") =>
                  /\ getLastError \in {""} \cup {exc} \cup {m.msg : m \in Range(delivered)}
                  /\ delivered = <<>> => getLastError = exc
          /\ (InOperation /\ pc \in {"c_materialize", "p_materialize"}
                 /\ delivered = <<>>) => Chan = resetLastError(Chan))
    /\ [][(op' = "info" /\ op # "info") => UNCHANGED chan]_vars

\* a conversion that delivered nothing and did not fail returned with an empty
\* lastError() while the scratch store still holds the input of an earlier
\* preview that failed
C6_Witness ==
    /\ Returned("convert")
    /\ delivered = <<>> /\ exc = "" /\ result # {}
    /\ getLastError = ""
    /\ Exists(vsimem, "/vsimem/preview_input.geojson")

\* the conversion has opened its input and taken the shapefile branch
ShpBranch == op = "convert" /\ driver = "ESRI Shapefile"

\* the conversion has opened its input and taken the single-file branch
SingleBranch == op = "convert" /\ driver \notin {"", "ESRI Shapefile"}

FamilySuffixes == <<"_point", "_multipoint", "_lines", "_polygons">>

\* the archive member of family k of layer i
MemberName(i, k) ==
    (IF req.layerName = "" THEN req.input.layers[i].name ELSE req.layerName)
        \o FamilySuffixes[k] \o ".shp"

\* the members written by the translates that answered a dataset
OkMembers == {c.member : c \in {d \in Range(calls) : d.ok}}

\* C7: for shapefile output, for every source layer and each of the four
\* families the translate is run exactly when the family's count is > 0; it
\* writes <layerNameOrOverride>_<familySuffix>.shp, and when it succeeds that
\* file is in the output directory; a family that counts zero gets no translate
\* and no file; the returned archive holds members of translated families only.
C7_FamilyEmptinessRule ==
    ShpBranch =>
        /\ \A n \in DOMAIN calls :
              LET c == calls[n]
              IN  /\ c.layer = ((n - 1) \div 4) + 1 /\ c.family = ((n - 1) % 4) + 1
                  /\ c.cnt \in {0, req.input.layers[c.layer].cnt[c.family]}
                  /\ c.ran <=> c.cnt > 0
                  /\ c.ran => /\ c.member = MemberName(c.layer, c.family)
                              /\ c.dst = "/vsimem/shp_output/" \o c.member
                  /\ ~c.ran => ~c.ok
        /\ pc = "c_family" => ReadDir(vsimem, baseDir) = OkMembers
        /\ result \subseteq OkMembers

\* a layer of 3 points, 0 multipoints, 5 lines and 2 polygons was converted
\* without a name override: the archive holds exactly the three members
C7_Witness ==
    /\ Returned("convert") /\ ShpBranch
    /\ req.layerName = ""
    /\ Len(req.input.layers) = 1 /\ req.input.layers[1].cnt = <<3, 0, 5, 2>>
    /\ result = {"roads_point.shp", "roads_lines.shp", "roads_polygons.shp"}

C9_DriverNamedInLastError ==
    (Returned("convert") /\ SingleBranch /\ \E c \in Translates : ~c.ok)
        => (result = {} /\ Contains(getLastError, driver))

\* no Failure-severity message was delivered during the operation
NoFailureDelivered == \A i \in DOMAIN delivered : delivered[i].cls \notin FailureClasses

\* the operation returned a failure: empty bytes or an error document
ReturnedFailure ==
    \/ Returned("convert") /\ result = {}
    \/ Returned("preview") /\ "error" \in DOMAIN doc

Resolve(n) == <<getDriverNameFromFormat(n), getExtensionFromFormat(n)>>

\* C11: resolving a format name is total and case-insensitive: the name of
\* the request and each of its re-casings resolve to the same (driver,
\* extension) pair; a name that is not registered resolves to ("GeoJSON",
\* ".geojson"); a registered name resolves to the driver and the extension of
\* one and the same row of the registry; the conversion uses that pair.
C11_RegistryTotalCaseInsensitive ==
    op = "convert" =>
        LET n == req.outputFormat
            key == toLower(n)
        IN  /\ \A m \in {key, ToUpper(n), Capitalize(key)} : Resolve(m) = Resolve(n)
            /\ key \notin RegisteredNames => Resolve(n) = <<"GeoJSON", ".geojson">>
            /\ key \in RegisteredNames =>
                  \E i \in DOMAIN DriverTable :
                      /\ DriverTable[i][1] = key /\ ExtensionTable[i][1] = key
                      /\ Resolve(n) = <<DriverTable[i][2], ExtensionTable[i][2]>>
            /\ driver # "" => driver = Resolve(n)[1]
            /\ \A c \in Translates :
                  driver # "ESRI Shapefile" => c.dst = "/vsimem/output" \o Resolve(n)[2]

\* a conversion to "FLATGEOBUF" ran its translate with the FlatGeobuf driver
\* to /vsimem/output.fgb
C11_Witness ==
    /\ Returned("convert")
    /\ req.outputFormat = "FLATGEOBUF"
    /\ driver = "FlatGeobuf"
    /\ \E c \in Translates : c.dst = "/vsimem/output.fgb" /\ c.ok

\* the directive list holds flag immediately followed by value
HasDirective(args, flag, value) ==
    \E i \in 1..(Len(args) - 1) : args[i] = flag /\ args[i + 1] = value

\* C12: for every conversion with a non-empty whereClause, every directive
\* list handed to a translate holds the user's clause as a "-where" directive
\* of its own, next to any geometry-family filter; in the shapefile branch as
\* in the single-file branch.
C12_UserWhereInEveryTranslate ==
    \A c \in Translates :
        req.whereClause # "" => HasDirective(c.args, "-where", req.whereClause)

\* C13: in the shapefile branch the directives of the lines family and of the
\* polygons family hold "-nlt PROMOTE_TO_MULTI", and those of the point family
\* and of the multipoint family hold no "-nlt" at all; each family's translate
\* filters on its own geometry predicate.
C13_PromotionByFamily ==
    ShpBranch =>
        \A c \in Translates :
            /\ c.family \in {3, 4} => HasDirective(c.args, "-nlt", "PROMOTE_TO_MULTI")
            /\ c.family \in {1, 2} => "-nlt" \notin Range(c.args)
            /\ HasDirective(c.args, "-where",
                            <<WHERE_POINT, WHERE_MULTIPOINT, WHERE_LINES, WHERE_POLYS>>[c.family])

\* a shapefile conversion translated the four families of one layer
C13_Witness ==
    /\ Returned("convert") /\ ShpBranch
    /\ {c.family : c \in {d \in Translates : d.ok}} = {1, 2, 3, 4}
    /\ \E c \in Translates : c.family = 2 /\ "-nlt" \notin Range(c.args)
    /\ \E c \in Translates : c.family = 4 /\ HasDirective(c.args, "-nlt", "PROMOTE_TO_MULTI")

\* a preview has returned a document that reports a box
Estimated == Returned("preview") /\ calls # <<>> /\ calls[1].est # <<>>

\* the label was recognised as WGS84 by its spelling
Lexical(label) ==
    \/ label = ""
    \/ toLower(label) \in {"epsg:4326", "wgs84", "wgs 84"}
    \/ Contains(toLower(label), "wgs84")
    \/ Contains(toLower(label), "wgs 84")

\* C14: when the CRS label is empty, or spells WGS84 (lower-cased equal to
\* "epsg:4326", "wgs84", "wgs 84" or containing "wgs84" or "wgs 84"), or parses
\* to a spatial reference equal to WGS84, the estimator returns the extent
\* unchanged with reprojected = false and never calls the point transform;
\* in the spelling cases it does not call the parser either.
C14_ShortCircuit ==
    Estimated =>
        LET eng == calls[1].eng
            est == calls[1].est[1]
            label == CrsLabel(req, eng)
        IN  (Lexical(label) \/ (eng.parseErr = 0 /\ eng.same)) =>
               /\ ~est.reprojected /\ est.box = eng.extent /\ est.transformed = 0
               /\ doc["bboxReprojected"] = FALSE
               /\ doc["bbox"] = doc["bboxOriginal"]
               /\ Lexical(label) => ~est.parsed
               /\ ~Lexical(label) => est.parsed

\* a preview under a label that only contains "WGS 84" short-circuited with
\* an engine that would have parsed and transformed it
C14_Witness ==
    /\ Estimated
    /\ req.sourceCrs = "NAD83 / WGS 84 grid"
    /\ calls[1].eng.parseErr = 0 /\ ~calls[1].eng.same /\ calls[1].eng.createOk
    /\ calls[1].eng.failAt = 36
    /\ ~calls[1].est[1].parsed /\ calls[1].est[1].transformed = 0
    /\ doc["bboxReprojected"] = FALSE /\ doc["bbox"] = doc["bboxOriginal"]

\* the estimator went past the short-circuit tests
PastShortCircuit(label, eng) == ~Lexical(label) /\ ~(eng.parseErr = 0 /\ eng.same)

\* C15: when the parser fails, the transformation cannot be created, or the
\* point transform fails at some sample point (after earlier points were
\* transformed), the estimator returns reprojected = false, the four reported
\* values are the original extent, and the debug trace names the reason.
C15_FailureAtomicity ==
    Estimated =>
        LET eng == calls[1].eng
            est == calls[1].est[1]
            label == CrsLabel(req, eng)
            reason == IF eng.parseErr # 0
                      THEN "SetFromUserInput failed (error " \o IntToString(eng.parseErr) \o ")"
                      ELSE IF ~eng.createOk THEN "OGRCreateCoordinateTransformation failed"
                      ELSE "OGR transform failed at point " \o IntToString(eng.failAt) \o ";"
        IN  (PastShortCircuit(label, eng)
                /\ (eng.parseErr # 0 \/ ~eng.createOk \/ eng.failAt < 36)) =>
               /\ ~est.reprojected /\ est.box = eng.extent
               /\ doc["bboxReprojected"] = FALSE
               /\ doc["bbox"] = BoxText(eng.extent) /\ doc["bboxOriginal"] = BoxText(eng.extent)
               /\ Contains(doc["debugTransform"], reason)
               /\ est.transformed =
                     IF eng.parseErr = 0 /\ eng.createOk THEN eng.failAt + 1 ELSE 0

\* the transform failed at the 21st sample point of a box that the twenty
\* transformed points would have moved
C15_Witness ==
    /\ Estimated
    /\ req.sourceCrs = "EPSG:3857"
    /\ calls[1].eng.parseErr = 0 /\ ~calls[1].eng.same /\ calls[1].eng.createOk
    /\ calls[1].eng.failAt = 20 /\ calls[1].eng.transform = Shift(8, -24)
    /\ calls[1].eng.extent = <<0, 0, 8, 16>>
    /\ calls[1].est[1].transformed = 21
    /\ doc["bbox"] = <<"0.000000", "0.000000", "8.000000", "16.000000">>
    /\ doc["bboxReprojected"] = FALSE

\* the statement of C16: the type label of every field of the first feature
\* follows from the field's declared type alone, for a field holding a value
\* as for a null or unset one (whose reported value is null).
C16_TypeLabelByDeclaredType ==
    (Returned("preview") /\ calls # <<>> /\ calls[1].eng.hasFeature) =>
        LET fields == calls[1].eng.fields
            label(t) == CASE t \in {"OFTInteger", "OFTInteger64"} -> "Integer"
                          [] t = "OFTReal" -> "Float"
                          [] t = "OFTString" -> "String"
                          [] t \in {"OFTDate", "OFTDateTime"} -> "Date"
                          [] OTHER -> "String"
        IN  /\ Len(doc["properties"]) = Len(fields)
            /\ \A i \in DOMAIN fields :
                  /\ doc["properties"][i].name = fields[i].name
                  /\ doc["properties"][i].type = label(fields[i].type)
                  /\ fields[i].state # "value" => doc["properties"][i].value = "null"

\* C18: past the short-circuit and without failure exactly 36 points are
\* transformed: 9 per edge at parameters i/8, i = 0..8, over the bottom, right,
\* top and left edge (each corner twice); the box is (min X, min Y, max X,
\* max Y) over the 36 transformed points; for a translation by (dx, dy) it is
\* the original box shifted by (dx, dy); minX <= maxX and minY <= maxY.
C18_Sampling ==
    Estimated =>
        LET eng == calls[1].eng
            est == calls[1].est[1]
            e == eng.extent
            W == e[3] - e[1]
            H == e[4] - e[2]
            edges == {<<e[1] + (i * W) \div 8, e[2]>> : i \in 0..8}
                     \cup {<<e[3], e[2] + (i * H) \div 8>> : i \in 0..8}
                     \cup {<<e[3] - (i * W) \div 8, e[4]>> : i \in 0..8}
                     \cup {<<e[1], e[4] - (i * H) \div 8>> : i \in 0..8}
            moved == {Transform(eng.transform, q) : q \in edges}
            pts == SamplePoints(e)
        IN  /\ Len(pts) = 36
            /\ \A i \in 0..8 :
                  /\ pts[1 + i] = <<e[1] + (i * W) \div 8, e[2]>>
                  /\ pts[10 + i] = <<e[3], e[2] + (i * H) \div 8>>
                  /\ pts[19 + i] = <<e[3] - (i * W) \div 8, e[4]>>
                  /\ pts[28 + i] = <<e[1], e[4] - (i * H) \div 8>>
            /\ (PastShortCircuit(CrsLabel(req, eng), eng)
                   /\ eng.parseErr = 0 /\ eng.createOk /\ eng.failAt >= 36) =>
                  /\ est.reprojected /\ est.transformed = 36
                  /\ doc["bboxReprojected"] = TRUE
                  /\ \A q \in moved :
                        /\ est.box[1] <= q[1] /\ q[1] <= est.box[3]
                        /\ est.box[2] <= q[2] /\ q[2] <= est.box[4]
                  /\ \A k \in 1..2 : \E q \in moved : q[k] = est.box[k]
                  /\ \A k \in 1..2 : \E q \in moved : q[k] = est.box[k + 2]
                  /\ est.box[1] <= est.box[3] /\ est.box[2] <= est.box[4]
                  /\ doc["bbox"] = BoxText(est.box)
                  /\ eng.transform.kind = "shift" =>
                        est.box = <<e[1] + eng.transform.dx, e[2] + eng.transform.dy,
                                    e[3] + eng.transform.dx, e[4] + eng.transform.dy>>

\* a box across x = 0 went through a transform that squares x: its least x
\* comes from the middle of an edge, not from a corner
C18_Witness ==
    /\ Estimated
    /\ calls[1].eng.extent = <<-16, -8, 16, 8>>
    /\ calls[1].eng.transform.kind = "square"
    /\ calls[1].est[1].reprojected /\ calls[1].est[1].transformed = 36
    /\ calls[1].est[1].box = <<0, -8, 256, 8>>
    /\ doc["bbox"] = <<"0.000000", "-8.000000", "256.000000", "8.000000">>

\* C19: within one shapefile conversion, two distinct (layer, family) pairs
\* that both have matching features are written to distinct output paths,
\* with and without a layer-name override.
C19_SplitPathsDistinct ==
    ShpBranch =>
        \A m, n \in DOMAIN calls :
            (m # n /\ calls[m].ran /\ calls[n].ran) => calls[m].dst # calls[n].dst

\* C20: once convert or preview has opened the input dataset, the handle is
\* closed exactly once before the call returns, on every exit path: no call
\* returns with the handle still open, none closes it twice.
C20_SourceClosedOnce ==
    (pc = "idle" /\ InOperation) => srcState \in {"none", "closed"}

\* C17: the last-message state is per calling thread: a step of the running
\* call leaves every local of the other thread, its lastError() included, as
\* it was, and a context switch carries each thread's lastError() over
\* unchanged; the scratch store is shared, so that a call can open bytes the
\* other thread's call has written (C17_Witness).
C17_LastErrorPerThread ==
    [][\/ other' = other
       \/ /\ other'.g_lastError = g_lastError
          /\ g_lastError' = other.g_lastError
          /\ vsimem' = vsimem]_vars

\* a call has opened, under its own scratch name, bytes that the call of the
\* other thread has written, while the two threads hold different last messages
C17_Witness ==
    /\ srcState = "open"
    /\ src # req.input
    /\ src = other.req.input
    /\ other.pc # "idle"
    /\ g_lastError # other.g_lastError

\* a call finds its input entry removed by the cleanup of the other thread's call
C17_InputRemoved ==
    /\ pc \in {"c_catch", "p_catch"}
    /\ exc = "Failed to open input dataset"
    /\ req.input.openable
    /\ other.op = op /\ other.pc = "idle" /\ other.exc = ""

C21_WitnessNoEmbedded ==
    /\ Returned("convert")
    /\ req.sourceCrs = "EPSG:3857" /\ req.targetCrs = "EPSG:3857"
    /\ req.input.layers # <<>> /\ ~FirstLayerHasSrs(req.input.layers)
    /\ \E c \in Translates : c.ok /\ CrsDirective(c.args) = <<>>

====
